---- MODULE Spec2Model ----
(***************************************************************************)
(* Model of the chatbot repository.                                        *)
(*                                                                         *)
(*   Spec        chatbot/app_chatbot/views.py: the module body (engine     *)
(*               construction and training at import time) followed by     *)
(*               the three view functions, run by concurrent requests.     *)
(*   SpecCli     spacy_model_manager/cli.py: validate_version_string.      *)
(*   SpecInstall spacy_model_manager/lib.py: install_spacy_model.          *)
(***************************************************************************)
EXTENDS Integers, Sequences, FiniteSets, TLC

VARIABLES
    pc,         \* position of the interpreter in the body of views.py
    engines,    \* number of ChatBot(...) constructions so far
    trainers,   \* number of chatterBotCorpusTrainer(bot) constructions so far
    trainings,  \* number of .train(...) calls started so far
    trained,    \* TRUE once .train(...) has returned
    storage,    \* statements held by the one shared engine (bot)
    defined,    \* view functions whose def statement has executed
    req,        \* the requests in flight, one record per worker slot
    value,      \* validate_version_string: the option value passed by click
    cliPc,      \* validate_version_string: "call", "returned" or "raised"
    cliRet,     \* validate_version_string: the value returned
    version,    \* install_spacy_model: the version argument
    upgrade,    \* install_spacy_model: the upgrade argument
    installed,  \* version of the model's distribution in the environment
    before,     \* the distribution's version when install_spacy_model was called
    ipc,        \* install_spacy_model: "call", "download", "confirm" or "done"
    downloads,  \* number of spacy.cli.download invocations
    exited,     \* TRUE when spacy.cli.download raised SystemExit
    readback,   \* installed_version as read back after the download
    iret        \* install_spacy_model: the status returned

webvars == <<pc, engines, trainers, trainings, trained, storage, defined, req>>

clivars == <<value, cliPc, cliRet>>

installvars == <<version, upgrade, installed, before, ipc, downloads, exited, readback, iret>>

vars == <<webvars, clivars, installvars>>

(***************************************************************************)
(* Bounds                                                                  *)
(***************************************************************************)
MaxReq == 2

\* longest option value given to validate_version_string
MaxLen == 4

\* longest version string given to install_spacy_model or found installed
MaxVerLen == 3

Reqs == 1 .. MaxReq

(***************************************************************************)
(* Optional values: Python's None and a present value.                     *)
(***************************************************************************)
None == {}

Some(x) == {x}

(***************************************************************************)
(* views.py                                                                *)
(***************************************************************************)
Messages == {"hi", "bye"}

Methods == {"GET", "POST"}

\* request.GET: the query parameters of a request
Queries ==
    { <<>>,
      [k \in {"userMessage"} |-> "hi"],
      [k \in {"userMessage"} |-> "bye"],
      [k \in {"other"} |-> "hi"] }

\* the bundled corpus loaded by chatterbotCorpusTrainer.train
Corpus == {"hello", "fine"}

\* variant: the engine is created read-only
read_only_true == TRUE

\* bot = ChatBot('chatbot', read_only=False, ...)
read_only == FALSE

IndexBody == "this is my first url."

Template == "index.html"

Handlers == {"Index", "Specific", "getResponse"}

\* Statement objects returned by bot.get_response
Statements == [text : Corpus \cup Messages, in_response_to : {None} \cup {Some(m) : m \in Messages}]

\* str(statement) is the statement's text
Str(statement) == statement.text

\* variant: a default message is substituted for an absent key
QueryGet_default(query, key) == IF key \in DOMAIN query THEN Some(query[key]) ELSE Some("hi")

\* request.GET.get(key): the value, or None when the key is absent
QueryGet(query, key) == IF key \in DOMAIN query THEN Some(query[key]) ELSE None

IdleReq ==
    [pc |-> "idle", handler |-> "none", method |-> "none", query |-> <<>>,
     arg |-> None, calls |-> 0, result |-> None, raised |-> FALSE,
     body |-> None, outcome |-> "none"]

WebInit ==
    /\ pc = "import"
    /\ engines = 0
    /\ trainers = 0
    /\ trainings = 0
    /\ trained = FALSE
    /\ storage = {}
    /\ defined = {}
    /\ req = [r \in Reqs |-> IdleReq]

WebIdle ==
    /\ pc = "idle"
    /\ engines = 0
    /\ trainers = 0
    /\ trainings = 0
    /\ trained = FALSE
    /\ storage = {}
    /\ defined = {}
    /\ req = [r \in Reqs |-> IdleReq]

CliIdle ==
    /\ value = None
    /\ cliPc = "idle"
    /\ cliRet = None

InstallIdle ==
    /\ version = None
    /\ upgrade = FALSE
    /\ installed = None
    /\ before = None
    /\ ipc = "idle"
    /\ downloads = 0
    /\ exited = FALSE
    /\ readback = None
    /\ iret = None

Init == WebInit /\ CliIdle /\ InstallIdle

----
(* The module body of views.py, executed once when the module is imported. *)

\* lines 1-4: the imports; an ImportError ends the module body.  Line 4 asks
\* chatterbot.trainers for the name chatterBotCorpusTrainer; whether the
\* installed library provides it is not decided here, so both outcomes occur.
Import ==
    /\ pc = "import"
    /\ \/ pc' = "construct"
       \/ pc' = "failed"
    /\ UNCHANGED <<engines, trainers, trainings, trained, storage, defined, req, clivars, installvars>>

\* lines 7-13: bot = ChatBot(...)
Construct ==
    /\ pc = "construct"
    /\ \/ /\ pc' = "mk_trainer"
          /\ engines' = engines + 1
       \/ /\ pc' = "failed"
          /\ UNCHANGED engines
    /\ UNCHANGED <<trainers, trainings, trained, storage, defined, req, clivars, installvars>>

\* line 28: chatterbotCorpusTrainer = chatterBotCorpusTrainer(bot)
MakeTrainer ==
    /\ pc = "mk_trainer"
    /\ \/ /\ pc' = "train"
          /\ trainers' = trainers + 1
       \/ /\ pc' = "failed"
          /\ UNCHANGED trainers
    /\ UNCHANGED <<engines, trainings, trained, storage, defined, req, clivars, installvars>>

\* variant: training is started in the background and the module body goes on
Train_background ==
    /\ pc = "train"
    /\ trainings' = trainings + 1
    /\ pc' = "defs"
    /\ UNCHANGED <<trained, storage>>
    /\ UNCHANGED <<engines, trainers, defined, req, clivars, installvars>>

\* variant: a training failure is swallowed and the module body goes on
Train_swallow ==
    /\ pc = "train"
    /\ trainings' = trainings + 1
    /\ \/ /\ pc' = "defs"
          /\ trained' = TRUE
          /\ storage' = storage \cup Corpus
       \/ /\ pc' = "defs"
          /\ UNCHANGED trained
          /\ \E part \in SUBSET Corpus : storage' = storage \cup part
    /\ UNCHANGED <<engines, trainers, defined, req, clivars, installvars>>

\* line 32: chatterbotCorpusTrainer.train('chatterbot.corpus.english'),
\* synchronous; a failure may leave part of the corpus in the engine
Train ==
    /\ pc = "train"
    /\ trainings' = trainings + 1
    /\ \/ /\ pc' = "defs"
          /\ trained' = TRUE
          /\ storage' = storage \cup Corpus
       \/ /\ pc' = "failed"
          /\ UNCHANGED trained
          /\ \E part \in SUBSET Corpus : storage' = storage \cup part
    /\ UNCHANGED <<engines, trainers, defined, req, clivars, installvars>>

\* lines 35-44: the three def statements
Defs ==
    /\ pc = "defs"
    /\ pc' = "loaded"
    /\ defined' = Handlers
    /\ UNCHANGED <<engines, trainers, trainings, trained, storage, req, clivars, installvars>>

----
(* Requests.  The framework calls a view with a request object. *)

Arrive(r) ==
    /\ pc = "loaded"
    /\ req[r].pc = "idle"
    /\ \E h \in defined, m \in Methods, q \in Queries :
          req' = [req EXCEPT ![r] = [IdleReq EXCEPT !.pc = "running", !.handler = h,
                                                    !.method = m, !.query = q]]
    /\ UNCHANGED <<pc, engines, trainers, trainings, trained, storage, defined, clivars, installvars>>

\* variant: the handler echoes the userMessage parameter when one is given
Index_echo(r) ==
    /\ req[r].pc = "running"
    /\ req[r].handler = "Index"
    /\ req' = [req EXCEPT ![r].pc = "done", ![r].outcome = "ok",
                          ![r].body = IF "userMessage" \in DOMAIN req[r].query
                                      THEN Some(req[r].query["userMessage"])
                                      ELSE Some(IndexBody)]
    /\ UNCHANGED <<pc, engines, trainers, trainings, trained, storage, defined, clivars, installvars>>

\* lines 35-36
Index(r) ==
    /\ req[r].pc = "running"
    /\ req[r].handler = "Index"
    /\ req' = [req EXCEPT ![r].pc = "done", ![r].outcome = "ok",
                          ![r].body = Some(IndexBody)]
    /\ UNCHANGED <<pc, engines, trainers, trainings, trained, storage, defined, clivars, installvars>>

\* lines 38-39: render(request, 'index.html'); a missing template raises
Specific(r) ==
    /\ req[r].pc = "running"
    /\ req[r].handler = "Specific"
    /\ \/ req' = [req EXCEPT ![r].pc = "done", ![r].outcome = "ok",
                             ![r].body = Some(Template)]
       \/ req' = [req EXCEPT ![r].pc = "done", ![r].outcome = "error"]
    /\ UNCHANGED <<pc, engines, trainers, trainings, trained, storage, defined, clivars, installvars>>

\* variant: the handler retrains the engine before each lookup
GetResponseCall_retrain(r) ==
    /\ req[r].pc = "running"
    /\ req[r].handler = "getResponse"
    /\ req' = [req EXCEPT ![r].pc = "lookup",
                          ![r].arg = QueryGet(req[r].query, "userMessage"),
                          ![r].calls = req[r].calls + 1]
    /\ trainings' = trainings + 1
    /\ UNCHANGED <<pc, engines, trainers, trained, storage, defined, clivars, installvars>>

\* variant: a lock serialises the lookups
GetResponseCall_locked(r) ==
    /\ req[r].pc = "running"
    /\ req[r].handler = "getResponse"
    /\ \A o \in Reqs : req[o].pc # "lookup"
    /\ req' = [req EXCEPT ![r].pc = "lookup",
                          ![r].arg = QueryGet(req[r].query, "userMessage"),
                          ![r].calls = req[r].calls + 1]
    /\ UNCHANGED <<pc, engines, trainers, trainings, trained, storage, defined, clivars, installvars>>

\* lines 42-43: read the parameter and enter bot.get_response(userMessage)
GetResponseCall(r) ==
    /\ req[r].pc = "running"
    /\ req[r].handler = "getResponse"
    /\ req' = [req EXCEPT ![r].pc = "lookup",
                          ![r].arg = QueryGet(req[r].query, "userMessage"),
                          ![r].calls = req[r].calls + 1]
    /\ UNCHANGED <<pc, engines, trainers, trainings, trained, storage, defined, clivars, installvars>>

\* what a lookup leaves in the engine: with read_only=False the input is learned
Learn(store, arg) == IF read_only THEN store ELSE store \cup arg

\* lines 43-44: bot.get_response returns; str(...) and HttpResponse(...)
GetResponseReturn(r) ==
    /\ req[r].pc = "lookup"
    /\ \E s \in Statements :
          /\ s.in_response_to = req[r].arg
          /\ s.text \in storage
          /\ req' = [req EXCEPT ![r].pc = "done", ![r].outcome = "ok",
                                ![r].result = Some(s),
                                ![r].body = Some(Str(s))]
    /\ storage' = Learn(storage, req[r].arg)
    /\ UNCHANGED <<pc, engines, trainers, trainings, trained, defined, clivars, installvars>>

\* variant: the failure is caught and a fallback reply is returned
GetResponseRaise_caught(r) ==
    /\ req[r].pc = "lookup"
    /\ req' = [req EXCEPT ![r].pc = "done", ![r].raised = TRUE,
                          ![r].outcome = "ok", ![r].body = Some("hi")]
    /\ UNCHANGED <<pc, engines, trainers, trainings, trained, storage, defined, clivars, installvars>>

\* line 43: bot.get_response raises; nothing in getResponse catches it
GetResponseRaise(r) ==
    /\ req[r].pc = "lookup"
    /\ req' = [req EXCEPT ![r].pc = "done", ![r].raised = TRUE,
                          ![r].outcome = "error"]
    /\ UNCHANGED <<pc, engines, trainers, trainings, trained, storage, defined, clivars, installvars>>

\* the response (or the server error) has been sent; the worker is free again
Finish(r) ==
    /\ req[r].pc = "done"
    /\ req' = [req EXCEPT ![r] = IdleReq]
    /\ UNCHANGED <<pc, engines, trainers, trainings, trained, storage, defined, clivars, installvars>>

Next ==
    \/ Import
    \/ Construct
    \/ MakeTrainer
    \/ Train
    \/ Defs
    \/ \E r \in Reqs : Arrive(r)
    \/ \E r \in Reqs : Index(r)
    \/ \E r \in Reqs : Specific(r)
    \/ \E r \in Reqs : GetResponseCall(r)
    \/ \E r \in Reqs : GetResponseReturn(r)
    \/ \E r \in Reqs : GetResponseRaise(r)
    \/ \E r \in Reqs : Finish(r)

Spec == Init /\ [][Next]_vars

----
(* Properties of views.py, checked under Spec. *)

\* C1: a step of the Index handler, whatever the request's method and query
\* and whatever the engine's state, ends the request with the body
\* "this is my first url.", makes no engine lookup and changes nothing of
\* the engine or of the module's state.
C1_IndexFixedBody ==
    [][\A r \in Reqs :
          (req[r].pc = "running" /\ req[r].handler = "Index" /\ req'[r] # req[r])
          => /\ req'[r].pc = "done"
             /\ req'[r].outcome = "ok"
             /\ req'[r].body = {"this is my first url."}
             /\ req'[r].calls = 0
             /\ UNCHANGED <<pc, engines, trainers, trainings, trained, storage, defined>>]_vars

\* an Index request carrying a userMessage parameter has been answered while
\* the engine holds a learned statement
C1_Witness ==
    \E r \in Reqs :
        /\ req[r].handler = "Index"
        /\ req[r].pc = "done"
        /\ "userMessage" \in DOMAIN req[r].query
        /\ req[r].method = "POST"
        /\ storage # Corpus

\* C2: a request is inside bot.get_response, or has made a lookup, only
\* after the training at module load has completed.
C2_TrainedBeforeLookup ==
    \A r \in Reqs :
        (req[r].pc = "lookup" \/ req[r].calls > 0) => (trained /\ trainings = 1)

C2_Witness == \E r \in Reqs : req[r].pc = "lookup" /\ req[r].calls = 1

\* C3: the engine is constructed at most once and trained at most once, and
\* whenever a request is being handled or has been handled both counts are
\* exactly one.
C3_ConstructedTrainedOnce ==
    /\ engines <= 1
    /\ trainers <= 1
    /\ trainings <= 1
    /\ (pc = "loaded" \/ \E r \in Reqs : req[r].pc # "idle")
          => (engines = 1 /\ trainers = 1 /\ trainings = 1)

\* requests of different handlers have completed, one of them a lookup
C3_Witness ==
    \E r1, r2 \in Reqs :
        /\ req[r1].pc = "done" /\ req[r1].handler = "getResponse"
        /\ req[r2].pc = "done" /\ req[r2].handler # "getResponse"
        /\ storage # Corpus

\* C4: a getResponse request makes one lookup, its argument is the
\* userMessage parameter or None when the parameter is absent, and the body
\* of a returned response is the text of that lookup's result.
C4_OneLookupForwarded ==
    \A r \in Reqs :
        (req[r].handler = "getResponse" /\ req[r].pc \in {"lookup", "done"})
        => /\ req[r].calls = 1
           /\ IF "userMessage" \in DOMAIN req[r].query
              THEN req[r].arg = {req[r].query["userMessage"]}
              ELSE req[r].arg = {}
           /\ req[r].outcome = "ok"
                 => /\ req[r].result # {}
                    /\ \A s \in req[r].result :
                          /\ s.in_response_to = req[r].arg
                          /\ req[r].body = {s.text}

\* a lookup for an absent parameter is in progress beside a finished one
\* whose reply differs from its message
C4_Witness ==
    \E r1, r2 \in Reqs :
        /\ req[r1].handler = "getResponse" /\ req[r1].pc = "lookup"
        /\ "userMessage" \notin DOMAIN req[r1].query
        /\ req[r2].handler = "getResponse" /\ req[r2].pc = "done"
        /\ req[r2].outcome = "ok"
        /\ req[r2].arg = {"hi"} /\ req[r2].body = {"hello"}

\* C5: when the lookup of a getResponse request raises, the request ends as
\* a server error after that single lookup, with no body built by the handler.
C5_LookupFailurePropagates ==
    \A r \in Reqs :
        req[r].raised
        => /\ req[r].pc = "done"
           /\ req[r].outcome = "error"
           /\ req[r].body = {}
           /\ req[r].result = {}
           /\ req[r].calls = 1

C5_Witness ==
    \E r \in Reqs : req[r].handler = "getResponse" /\ req[r].raised /\ req[r].pc = "done"

\* C6: once the module body has failed it stays failed, and in a state where
\* it has failed, or where construction or training has not completed, no
\* view function is defined and no request is being or has been handled.
C6_FailedLoadServesNothing ==
    [][/\ pc = "failed" => pc' = "failed"
       /\ (pc' = "failed" \/ ~trained' \/ engines' = 0)
             => (defined' = {} /\ \A r \in Reqs : req'[r] = IdleReq)]_vars

\* training has failed leaving part of the corpus in the engine
C6_Witness ==
    /\ pc = "failed"
    /\ trainings = 1
    /\ ~trained
    /\ storage # {}
    /\ storage # Corpus

\* C7: every request inside bot.get_response uses the one engine, a request
\* about to call it is never blocked by the requests already inside, and a
\* lookup that returned has left its message in the shared engine.
C7_SharedEngineNoLock ==
    /\ \A r \in Reqs : req[r].pc = "lookup" => engines = 1
    /\ \A r \in Reqs :
          (req[r].pc = "running" /\ req[r].handler = "getResponse")
          => ENABLED GetResponseCall(r)
    /\ \A r \in Reqs :
          (req[r].handler = "getResponse" /\ req[r].pc = "done" /\ req[r].outcome = "ok")
          => req[r].arg \subseteq storage

\* two requests are inside bot.get_response at once, after an earlier lookup
\* changed the engine
C7_Witness ==
    /\ Cardinality({r \in Reqs : req[r].pc = "lookup"}) >= 2
    /\ storage # Corpus

----
(***************************************************************************)
(* spacy_model_manager/cli.py: validate_version_string                     *)
(***************************************************************************)
Digits == {"0", "1"}

Chars == Digits \cup {".", "a"}

\* the strings of at most n characters over the alphabet
StringsOver(alphabet, n) == UNION {[1 .. k -> alphabet] : k \in 0 .. n}

\* \d+ : the position after the longest run of digits starting at position i
RECURSIVE SkipDigits(_, _)
SkipDigits(s, i) ==
    IF i <= Len(s) /\ s[i] \in Digits THEN SkipDigits(s, i + 1) ELSE i

\* (?:\.\d+)+ : the position after the groups of '.' and digits starting at i
RECURSIVE SkipGroups(_, _)
SkipGroups(s, i) ==
    IF i + 1 <= Len(s) /\ s[i] = "." /\ s[i + 1] \in Digits
    THEN SkipGroups(s, SkipDigits(s, i + 1))
    ELSE i

\* version_pattern.match(value): re.match anchors the pattern at the start of
\* the value only.  The position after the match, or 0 when there is none.
PatternMatch(s) ==
    LET d == SkipDigits(s, 1)
        g == SkipGroups(s, d)
    IN  IF d > 1 /\ g > d THEN g ELSE 0

CliInit ==
    /\ value \in {None} \cup {Some(s) : s \in StringsOver(Chars, MaxLen)}
    /\ cliPc = "call"
    /\ cliRet = None

InitCli == WebIdle /\ CliInit /\ InstallIdle

\* lines 24-37
ValidateVersionString ==
    /\ cliPc = "call"
    /\ IF value = None
       THEN cliPc' = "returned" /\ cliRet' = None
       ELSE LET v == CHOOSE s \in value : TRUE
            IN  IF PatternMatch(v) = 0
                THEN cliPc' = "raised" /\ cliRet' = None
                ELSE cliPc' = "returned" /\ cliRet' = value
    /\ UNCHANGED <<value, webvars, installvars>>

NextCli == ValidateVersionString

SpecCli == InitCli /\ [][NextCli]_vars

\* the whole string is digits followed by one or more groups of '.' and digits
IsDottedNumeric(s) ==
    /\ Len(s) >= 3
    /\ \A i \in 1 .. Len(s) : s[i] \in Digits \cup {"."}
    /\ s[1] \in Digits
    /\ s[Len(s)] \in Digits
    /\ \E i \in 1 .. Len(s) : s[i] = "."
    /\ \A i \in 1 .. Len(s) - 1 : ~(s[i] = "." /\ s[i + 1] = ".")

\* C8: validate_version_string returns None for None, returns the value
\* unchanged when the whole value is a dotted numeric version, and raises
\* BadParameter for every other value.
C8_ValidateWholeValue ==
    cliPc # "call"
    => IF value = None
       THEN cliPc = "returned" /\ cliRet = None
       ELSE \A s \in value :
               IF IsDottedNumeric(s)
               THEN cliPc = "returned" /\ cliRet = value
               ELSE cliPc = "raised"

----
(***************************************************************************)
(* spacy_model_manager/lib.py: install_spacy_model                         *)
(***************************************************************************)

\* version strings: digits, then any number of groups of '.' and digits
IsRelease(s) ==
    /\ Len(s) >= 1
    /\ \A i \in 1 .. Len(s) : s[i] \in Digits \cup {"."}
    /\ s[1] \in Digits
    /\ s[Len(s)] \in Digits
    /\ \A i \in 1 .. Len(s) - 1 : ~(s[i] = "." /\ s[i + 1] = ".")

VersionStrings == {s \in StringsOver(Digits \cup {"."}, MaxVerLen) : IsRelease(s)}

DigitVal(c) == IF c = "0" THEN 0 ELSE 1

RECURSIVE ParseInt(_)
ParseInt(s) ==
    IF s = <<>> THEN 0
    ELSE 10 * ParseInt(SubSeq(s, 1, Len(s) - 1)) + DigitVal(s[Len(s)])

RECURSIVE SplitDots(_)
SplitDots(s) ==
    IF \E i \in 1 .. Len(s) : s[i] = "."
    THEN LET i == CHOOSE j \in 1 .. Len(s) :
                     s[j] = "." /\ \A k \in 1 .. j - 1 : s[k] # "."
         IN  <<ParseInt(SubSeq(s, 1, i - 1))>> \o SplitDots(SubSeq(s, i + 1, Len(s)))
    ELSE <<ParseInt(s)>>

RECURSIVE StripZeros(_)
StripZeros(t) ==
    IF t # <<>> /\ t[Len(t)] = 0 THEN StripZeros(SubSeq(t, 1, Len(t) - 1)) ELSE t

\* packaging.version.parse: versions compare by their release numbers with
\* trailing zeros dropped
Parse(s) == StripZeros(SplitDots(s))

\* Python truth of an Optional[str]: None and "" are false
Truthy(opt) == opt # None /\ opt # Some(<<>>)

TheStr(opt) == CHOOSE s \in opt : TRUE

InstallInit ==
    /\ version \in {None, Some(<<>>)} \cup {Some(s) : s \in VersionStrings}
    /\ upgrade \in BOOLEAN
    /\ installed \in {None} \cup {Some(s) : s \in VersionStrings}
    /\ before = installed
    /\ ipc = "call"
    /\ downloads = 0
    /\ exited = FALSE
    /\ readback = None
    /\ iret = None

InitInstall == WebIdle /\ CliIdle /\ InstallInit

\* variant: the upgrade flag is not consulted
InstallCheck_noupgrade ==
    /\ ipc = "call"
    /\ IF ~Truthy(version) /\ Truthy(installed)
       THEN ipc' = "done" /\ iret' = Some(0)
       ELSE ipc' = "download" /\ UNCHANGED iret
    /\ UNCHANGED <<version, upgrade, installed, before, downloads, exited, readback>>
    /\ UNCHANGED <<webvars, clivars>>

\* lines 188-204: the check for an existing version
InstallCheck ==
    /\ ipc = "call"
    /\ IF ~Truthy(version) /\ ~upgrade /\ Truthy(installed)
       THEN ipc' = "done" /\ iret' = Some(0)
       ELSE ipc' = "download" /\ UNCHANGED iret
    /\ UNCHANGED <<version, upgrade, installed, before, downloads, exited, readback>>
    /\ UNCHANGED <<webvars, clivars>>

\* lines 206-225: spacy.cli.download, which leaves the environment in a state
\* of its own choosing and either returns or raises SystemExit
InstallDownload ==
    /\ ipc = "download"
    /\ downloads' = downloads + 1
    /\ installed' \in {None} \cup {Some(s) : s \in VersionStrings}
    /\ \/ ipc' = "confirm" /\ UNCHANGED <<exited, iret>>
       \/ ipc' = "done" /\ exited' = TRUE /\ iret' = Some(0 - 1)
    /\ UNCHANGED <<version, upgrade, before, readback>>
    /\ UNCHANGED <<webvars, clivars>>

\* variant: the installed version is not compared with the requested one
InstallConfirm_nocompare ==
    /\ ipc = "confirm"
    /\ ipc' = "done"
    /\ \/ /\ installed # None
          /\ readback' = installed
          /\ iret' = Some(0)
       \/ iret' = Some(0 - 1) /\ UNCHANGED readback
    /\ UNCHANGED <<version, upgrade, installed, before, downloads, exited>>
    /\ UNCHANGED <<webvars, clivars>>

\* lines 227-254: read the installed version back (any exception, a missing
\* distribution included, gives -1) and compare it with the requested one
InstallConfirm ==
    /\ ipc = "confirm"
    /\ ipc' = "done"
    /\ \/ /\ installed # None
          /\ readback' = installed
          /\ IF Truthy(version) /\ Parse(TheStr(version)) # Parse(TheStr(installed))
             THEN iret' = Some(0 - 1)
             ELSE iret' = Some(0)
       \/ iret' = Some(0 - 1) /\ UNCHANGED readback
    /\ UNCHANGED <<version, upgrade, installed, before, downloads, exited>>
    /\ UNCHANGED <<webvars, clivars>>

NextInstall ==
    \/ InstallCheck
    \/ InstallDownload
    \/ InstallConfirm

SpecInstall == InitInstall /\ [][NextInstall]_vars

\* C9: when install_spacy_model was called with a version and returned 0, the
\* version read back after the download equals the requested one as parsed
\* versions; when the download exited, the version could not be read back, or
\* the two differ, it returned -1.
C9_ZeroMeansVersionMatches ==
    ipc = "done"
    => /\ (Truthy(version) /\ iret = {0})
            => /\ downloads = 1
               /\ readback # {}
               /\ readback = installed
               /\ Parse(TheStr(readback)) = Parse(TheStr(version))
       /\ (downloads = 1 /\ (\/ exited
                             \/ readback = {}
                             \/ /\ Truthy(version)
                                /\ Parse(TheStr(readback)) # Parse(TheStr(version))))
            => iret = {0 - 1}

\* version 1.0 was requested, 1 was read back, and the call returned 0
C9_Witness ==
    /\ ipc = "done"
    /\ version = {<<"1", ".", "0">>}
    /\ readback = {<<"1">>}
    /\ iret = {0}

\* C10: called with no version and upgrade=False for an installed model,
\* install_spacy_model returns 0 without a download and leaves the installed
\* version as it was; in every other case it invokes the download once.
C10_SkipOnlyWhenInstalled ==
    /\ downloads <= 1
    /\ ipc = "done"
         => IF ~Truthy(version) /\ ~upgrade /\ before # {}
            THEN iret = {0} /\ downloads = 0 /\ installed = before
            ELSE downloads = 1
    /\ ipc = "confirm" => downloads = 1

\* the call for an installed model returned without a download
C10_Witness ==
    /\ ipc = "done"
    /\ version = {}
    /\ ~upgrade
    /\ before = {<<"1", ".", "0">>}
    /\ installed = before
    /\ downloads = 0
    /\ iret = {0}

====
